---------------------------- MODULE Spec2Model ----------------------------
(***************************************************************************)
(* The expiring in-memory key-value store of internal/storage/memory.go:   *)
(* two Go maps (data, ttl) guarded by one sync.RWMutex, with lazy TTL      *)
(* expiration evaluated against time.Now().Unix().                         *)
(*                                                                         *)
(* Every goroutine that calls the store is a worker with a program         *)
(* counter.  An operation is cut into steps at the points where another    *)
(* goroutine or the clock can be observed: the lock acquisitions, the      *)
(* individual map writes, each iteration of List's range loop.             *)
(***************************************************************************)
EXTENDS Integers, FiniteSets, Sequences, TLC

\* ------------------------------------------------------------------ bounds

\* The last whole second the model's clock reaches.
MaxSec == 1
\* Clock ticks per second: the store reads the clock truncated to seconds.
TicksPerSec == 2
\* The largest ordinary TTL argument (the extreme one is MaxInt).
MaxTTL == 1
\* The largest List limit.
MaxLimit == 2
\* Width in bits of the model's stand-in for Go's int64.
IntBits == 3

MaxTick == MaxSec * TicksPerSec + (TicksPerSec - 1)
MaxInt == 2 ^ (IntBits - 1) - 1
MinInt == 0 - 2 ^ (IntBits - 1)

Workers == {"w1", "w2"}
Keys == {"k1", "k2"}
EmptyKey == ""
KeyArgs == Keys \cup {EmptyKey}
Values == {"", "a"}

\* ttlSeconds *int64: nil is <<>>, a pointer to n is <<n>>.
Nil == <<>>
TTLArgs == {Nil} \cup { <<n>> : n \in (-1 .. MaxTTL) \cup {MaxInt} }
Limits == -1 .. MaxLimit

ErrEmptyKey == "key cannot be empty"
NoErr == ""

\* ----------------------------------------------------------------- helpers

\* Go's m[k] = v on a map.
Put(f, k, v) == [x \in (DOMAIN f) \cup {k} |-> IF x = k THEN v ELSE f[x]]
\* Go's builtin delete(m, k): a no-op when k is absent.
Remove(f, k) == [x \in (DOMAIN f) \ {k} |-> f[x]]
\* make(map[string]string)
EmptyMap == [x \in {} |-> ""]
\* make(map[string]int64)
EmptyTTL == [x \in {} |-> 0]

\* Two's-complement wrap-around of a signed addition.
Wrap(x) == ((x - MinInt) % (2 ^ IntBits)) + MinInt

Min(a, b) == IF a <= b THEN a ELSE b

VARIABLES
    data,      \* m.data: map[string]string
    ttl,       \* m.ttl: map[string]int64, absolute expiration in seconds
    readers,   \* m.mu: the workers holding the read lock
    writer,    \* m.mu: the worker holding the exclusive lock (at most one)
    now,       \* the wall clock, in ticks
    procs,     \* the goroutines that call the store
    pc,        \* each worker's position
    key,       \* each worker's key argument
    val,       \* Set's value argument
    ttlArg,    \* Set's ttlSeconds argument
    existed,   \* Delete's local `existed`
    limit,     \* List's limit argument
    todo,      \* List: the keys the range loop has not visited yet
    result,    \* List's local `result`
    last,      \* the call that returned in the step leading to this state
    hist,      \* per key, the last committed write (observer's log)
    ticked,    \* per worker, whether the clock ticked during its List scan
    readAt,    \* per worker, the tick at which its Get first read the clock
    req,       \* per worker, the request the Request Handler serves for it
    raced      \* per worker, whether another worker wrote its key since
               \* its call began

vars == <<data, ttl, readers, writer, now, procs, pc, key, val, ttlArg, existed,
          limit, todo, result, last, hist, ticked, readAt, req, raced>>

store == <<data, ttl>>
mu == <<readers, writer>>
locals == <<key, val, ttlArg, existed, limit, todo, result, readAt>>

\* time.Now().Unix()
Unix == now \div TicksPerSec

\* ------------------------------------------------------- observer's records

\* What a call returned.  Get: val, ok = found.  Set: err.  Delete:
\* ok = existed, err.  List: pairs, err.  The arguments are kept beside it,
\* with three observations: at, the tick at which Get first read the clock;
\* quiet, whether the clock stood still during List's scan; raced, whether
\* another worker wrote the call's key while the call ran.  by is the
\* worker that called.  For a call that came through the Request Handler,
\* via is "handler", code is the status code of the response, and reqTTL
\* and reqLimit are the request's optional fields (<<>> when absent).
NoCall ==
    [op |-> "none", key |-> "", val |-> "", ttl |-> Nil, limit |-> 0,
     ok |-> FALSE, err |-> NoErr, pairs |-> EmptyMap, at |-> 0,
     quiet |-> FALSE, raced |-> FALSE, by |-> "", via |-> "store",
     code |-> "", reqTTL |-> Nil, reqLimit |-> Nil]

\* The request a worker serves: rpc, whether its call came through the
\* Request Handler; ttl and limit, the request's optional ttl_seconds and
\* limit (<<>> when absent).
NoReq == [rpc |-> FALSE, ttl |-> Nil, limit |-> Nil]

\* A TTL argument that asks for an expiration.
Positive(n) == n /= Nil /\ n[1] > 0

\* The last Set or Delete committed on a key: kind "none" (never written),
\* "set" or "del".  For a Set: its value; n, the expiration it asked for in
\* seconds (0 when it asked for none: nil, zero or negative); nil, whether
\* ttlSeconds was nil; at, the tick at which it read the clock (kept when
\* n > 0); cancelled, for a Set without expiration that directly overwrote
\* a Set with one, the deadline in seconds of the overwritten Set (else 0);
\* evicted, whether a Get's lazy cleanup has removed the entry since; by,
\* the worker that called the Set; rpc, whether the Set came through the
\* Request Handler; asked, for a Set that came through the Request Handler
\* with ttl_seconds = n > 0, the second at which the request wants the key
\* to expire (else 0).
NoWrite ==
    [kind |-> "none", val |-> "", n |-> 0, nil |-> FALSE, at |-> 0,
     cancelled |-> 0, evicted |-> FALSE, by |-> "", rpc |-> FALSE,
     asked |-> 0]

\* The second at which a logged Set's key is due, in unbounded arithmetic.
Deadline(h) == (h.at \div TicksPerSec) + h.n

LogSet(h, v, n) ==
    IF Positive(n)
    THEN [NoWrite EXCEPT !.kind = "set", !.val = v, !.n = n[1], !.at = now]
    ELSE [NoWrite EXCEPT
            !.kind = "set", !.val = v, !.nil = (n = Nil),
            !.cancelled = IF h.kind = "set" /\ h.n > 0 THEN Deadline(h) ELSE 0]

\* The caller of a logged Set: worker w, serving request r.
LogCaller(h, w, r) ==
    [h EXCEPT !.by = w, !.rpc = r.rpc,
              !.asked = IF r.rpc /\ Positive(r.ttl) THEN Unix + r.ttl[1] ELSE 0]

LogDelete(h) == [NoWrite EXCEPT !.kind = "del"]

LogEvict(h) == [h EXCEPT !.evicted = TRUE, !.val = ""]

\* An entry is physically resident, by the log.
Resident(h) == h.kind = "set" /\ ~h.evicted

\* ------------------------------------------------------------------- state

\* NewMemoryStore, and no call in progress.
InitStore ==
    /\ data = EmptyMap
    /\ ttl = EmptyTTL
    /\ readers = {}
    /\ writer = {}
    /\ now = 0
    /\ pc = [w \in Workers |-> "idle"]
    /\ key = [w \in Workers |-> ""]
    /\ val = [w \in Workers |-> ""]
    /\ ttlArg = [w \in Workers |-> Nil]
    /\ existed = [w \in Workers |-> FALSE]
    /\ limit = [w \in Workers |-> 0]
    /\ todo = [w \in Workers |-> {}]
    /\ result = [w \in Workers |-> EmptyMap]
    /\ last = NoCall
    /\ hist = [k \in KeyArgs |-> NoWrite]
    /\ ticked = [w \in Workers |-> FALSE]
    /\ readAt = [w \in Workers |-> 0]
    /\ req = [w \in Workers |-> NoReq]
    /\ raced = [w \in Workers |-> FALSE]

\* One goroutine calls the store, one call after the other.
Init == InitStore /\ procs = {"w1"}

\* isExpired with the hasExpiration test inverted: a key without an
\* expiration counts as expired.
isExpired_MissingIsExpired(k) == k \notin DOMAIN ttl \/ Unix >= ttl[k]

\* isExpired with an exclusive boundary: `>` for `>=`.
isExpired_Exclusive(k) == k \in DOMAIN ttl /\ Unix > ttl[k]

\* func (m *MemoryStore) isExpired(key string) bool
isExpired(k) == k \in DOMAIN ttl /\ Unix >= ttl[k]

\* The expiration Set stores: time.Now().Unix() + *ttlSeconds in int64.
Expiration(n) == Wrap(Unix + n)

\* RLock that does not wait for the writer: a read during a write.
CanRLock_IgnoresWriter == TRUE

\* sync.RWMutex: RLock succeeds while no writer holds the lock.
CanRLock == writer = {}
\* Lock that does not wait for the readers.
CanLock_IgnoresReaders == writer = {}

\* sync.RWMutex: Lock succeeds while nobody holds the lock.
CanLock == writer = {} /\ readers = {}

\* A worker's locals after its call returned.
Idle(w) ==
    /\ pc' = [pc EXCEPT ![w] = "idle"]
    /\ key' = [key EXCEPT ![w] = ""]
    /\ val' = [val EXCEPT ![w] = ""]
    /\ ttlArg' = [ttlArg EXCEPT ![w] = Nil]
    /\ existed' = [existed EXCEPT ![w] = FALSE]
    /\ limit' = [limit EXCEPT ![w] = 0]
    /\ todo' = [todo EXCEPT ![w] = {}]
    /\ result' = [result EXCEPT ![w] = EmptyMap]
    /\ readAt' = [readAt EXCEPT ![w] = 0]
    /\ req' = [req EXCEPT ![w] = NoReq]

\* The observer's flags when worker w returns without having written.
Returned(w) == [raced EXCEPT ![w] = FALSE]

\* The observer's flags when worker w returns having written key k: every
\* other worker whose call on k is in progress has been raced.
Wrote(w, k) ==
    [u \in Workers |->
        IF u = w THEN FALSE
        ELSE raced[u] \/ (pc[u] /= "idle" /\ key[u] = k)]

\* What the caller of worker w sees of the store's result r: the store's
\* caller sees r; the Request Handler's caller sees the response the
\* handler builds from it, err != nil becoming codes.Internal.
Reply(w, r) ==
    [r EXCEPT !.by = w,
              !.raced = raced[w],
              !.via = IF req[w].rpc THEN "handler" ELSE "store",
              !.code = IF ~req[w].rpc THEN ""
                       ELSE IF r.err = NoErr THEN "OK" ELSE "Internal",
              !.reqTTL = req[w].ttl,
              !.reqLimit = req[w].limit]

\* --------------------------------------------------------------------- Get

\* What Get returns when it takes the not-expired path: val, found := m.data[key]
Lookup(k) ==
    IF k \in DOMAIN data THEN [val |-> data[k], found |-> TRUE]
    ELSE [val |-> "", found |-> FALSE]

GetReturned(k, v, found, at) ==
    [NoCall EXCEPT !.op = "get", !.key = k, !.val = v, !.ok = found,
                   !.at = at]

\* Get: m.mu.RLock() and the first isExpired(key).
GetRLock(w, k) ==
    /\ pc[w] = "idle"
    /\ CanRLock
    /\ readers' = readers \cup {w}
    /\ key' = [key EXCEPT ![w] = k]
    /\ readAt' = [readAt EXCEPT ![w] = now]
    /\ pc' = [pc EXCEPT ![w] = IF isExpired(k) THEN "get_expired" ELSE "get_read"]
    /\ last' = NoCall
    /\ UNCHANGED <<store, writer, now, procs, val, ttlArg, existed, limit,
                   todo, result, hist, ticked, raced>>

\* Get, key not expired: read m.data[key], RUnlock, return.
GetRead(w) ==
    /\ pc[w] = "get_read"
    /\ readers' = readers \ {w}
    /\ last' = Reply(w, GetReturned(key[w], Lookup(key[w]).val,
                                     Lookup(key[w]).found, readAt[w]))
    /\ raced' = Returned(w)
    /\ Idle(w)
    /\ UNCHANGED <<store, writer, now, procs, hist, ticked>>

\* Get that asks for the exclusive lock without releasing the read lock.
GetRUnlock_KeepsRLock(w) ==
    /\ pc[w] = "get_expired"
    /\ pc' = [pc EXCEPT ![w] = "get_lock"]
    /\ last' = NoCall
    /\ UNCHANGED <<store, mu, now, procs, locals, hist, ticked, req, raced>>

\* Get, key expired: m.mu.RUnlock() before asking for the exclusive lock.
GetRUnlock(w) ==
    /\ pc[w] = "get_expired"
    /\ readers' = readers \ {w}
    /\ pc' = [pc EXCEPT ![w] = "get_lock"]
    /\ last' = NoCall
    /\ UNCHANGED <<store, writer, now, procs, locals, hist, ticked, req,
                   raced>>

\* Get without the second isExpired(key): it deletes what it saw expired
\* under the read lock.
GetLock_NoRecheck(w) ==
    /\ pc[w] = "get_lock"
    /\ CanLock
    /\ writer' = {w}
    /\ data' = Remove(data, key[w])
    /\ pc' = [pc EXCEPT ![w] = "get_del"]
    /\ last' = NoCall
    /\ UNCHANGED <<ttl, readers, now, procs, locals, hist, ticked, req,
                   raced>>

\* Get, key expired: m.mu.Lock(), the second isExpired(key) and, when it
\* still holds, the first statement of m.delete(key).
GetLock(w) ==
    /\ pc[w] = "get_lock"
    /\ CanLock
    /\ writer' = {w}
    /\ IF isExpired(key[w])
       THEN /\ data' = Remove(data, key[w])
            /\ pc' = [pc EXCEPT ![w] = "get_del"]
       ELSE /\ data' = data
            /\ pc' = [pc EXCEPT ![w] = "get_ret"]
    /\ last' = NoCall
    /\ UNCHANGED <<ttl, readers, now, procs, locals, hist, ticked, req,
                   raced>>

\* Get that, when the re-check finds the key not expired, returns what
\* m.data holds instead of "", false.
GetFinish_ReturnsLookup(w) ==
    /\ pc[w] \in {"get_del", "get_ret"}
    /\ ttl' = IF pc[w] = "get_del" THEN Remove(ttl, key[w]) ELSE ttl
    /\ hist' = IF pc[w] = "get_del"
               THEN [hist EXCEPT ![key[w]] = LogEvict(@)]
               ELSE hist
    /\ writer' = {}
    /\ last' = Reply(w, GetReturned(key[w], Lookup(key[w]).val,
                                     Lookup(key[w]).found, readAt[w]))
    /\ raced' = IF pc[w] = "get_del" THEN Wrote(w, key[w]) ELSE Returned(w)
    /\ Idle(w)
    /\ UNCHANGED <<data, readers, now, procs, ticked>>

\* Get whose cleanup forgets delete(m.ttl, key).
GetFinish_KeepTTL(w) ==
    /\ pc[w] \in {"get_del", "get_ret"}
    /\ hist' = IF pc[w] = "get_del"
               THEN [hist EXCEPT ![key[w]] = LogEvict(@)]
               ELSE hist
    /\ writer' = {}
    /\ last' = Reply(w, GetReturned(key[w], "", FALSE, readAt[w]))
    /\ raced' = IF pc[w] = "get_del" THEN Wrote(w, key[w]) ELSE Returned(w)
    /\ Idle(w)
    /\ UNCHANGED <<store, readers, now, procs, ticked>>

\* Get, key expired: the second statement of m.delete(key) when the
\* re-check held, then return "", false and the deferred Unlock.
GetFinish(w) ==
    /\ pc[w] \in {"get_del", "get_ret"}
    /\ ttl' = IF pc[w] = "get_del" THEN Remove(ttl, key[w]) ELSE ttl
    /\ hist' = IF pc[w] = "get_del"
               THEN [hist EXCEPT ![key[w]] = LogEvict(@)]
               ELSE hist
    /\ writer' = {}
    /\ last' = Reply(w, GetReturned(key[w], "", FALSE, readAt[w]))
    /\ raced' = IF pc[w] = "get_del" THEN Wrote(w, key[w]) ELSE Returned(w)
    /\ Idle(w)
    /\ UNCHANGED <<data, readers, now, procs, ticked>>

\* --------------------------------------------------------------------- Set

SetReturned(k, v, n, err) ==
    [NoCall EXCEPT !.op = "set", !.key = k, !.val = v, !.ttl = n,
                   !.ok = (err = NoErr), !.err = err]

\* Set without the else branch: an old expiration survives a Set without TTL.
SetExpiration_KeepOld(k, n) ==
    IF n /= Nil /\ n[1] > 0 THEN Put(ttl, k, Expiration(n[1])) ELSE ttl

\* Set with `>= 0` for `> 0`: a TTL of zero expires the key at once.
SetExpiration_ZeroExpires(k, n) ==
    IF n /= Nil /\ n[1] >= 0 THEN Put(ttl, k, Expiration(n[1]))
    ELSE Remove(ttl, k)

\* Set's if/else on ttlSeconds: the ttl map it leaves.
SetExpiration(k, n) ==
    IF n /= Nil /\ n[1] > 0 THEN Put(ttl, k, Expiration(n[1]))
    ELSE Remove(ttl, k)

\* Set without the empty-key check.
SetLock_NoKeyCheck(w, k, v, n) ==
    /\ pc[w] = "idle"
    /\ CanLock
    /\ writer' = {w}
    /\ data' = Put(data, k, v)
    /\ key' = [key EXCEPT ![w] = k]
    /\ val' = [val EXCEPT ![w] = v]
    /\ ttlArg' = [ttlArg EXCEPT ![w] = n]
    /\ pc' = [pc EXCEPT ![w] = "set_ttl"]
    /\ last' = NoCall
    /\ UNCHANGED <<ttl, readers, existed, limit, todo, result, readAt>>
    /\ UNCHANGED <<now, procs, hist, ticked, raced>>

\* Set: the empty-key check; else m.mu.Lock() and m.data[key] = value.
SetLock(w, k, v, n) ==
    /\ pc[w] = "idle"
    /\ IF k = EmptyKey
       THEN /\ last' = Reply(w, SetReturned(k, v, n, ErrEmptyKey))
            /\ UNCHANGED <<store, mu, pc, locals>>
       ELSE /\ CanLock
            /\ writer' = {w}
            /\ data' = Put(data, k, v)
            /\ key' = [key EXCEPT ![w] = k]
            /\ val' = [val EXCEPT ![w] = v]
            /\ ttlArg' = [ttlArg EXCEPT ![w] = n]
            /\ pc' = [pc EXCEPT ![w] = "set_ttl"]
            /\ last' = NoCall
            /\ UNCHANGED <<ttl, readers, existed, limit, todo, result, readAt>>
    /\ UNCHANGED <<now, procs, hist, ticked, raced>>

\* Set: the write (or removal) of m.ttl[key], return nil, deferred Unlock.
SetTTL(w) ==
    /\ pc[w] = "set_ttl"
    /\ ttl' = SetExpiration(key[w], ttlArg[w])
    /\ hist' = [hist EXCEPT
                   ![key[w]] = LogCaller(LogSet(@, val[w], ttlArg[w]), w, req[w])]
    /\ writer' = {}
    /\ last' = Reply(w, SetReturned(key[w], val[w], ttlArg[w], NoErr))
    /\ raced' = Wrote(w, key[w])
    /\ Idle(w)
    /\ UNCHANGED <<data, readers, now, procs, ticked>>

\* ------------------------------------------------------------------ Delete

DeleteReturned(k, ex, err) ==
    [NoCall EXCEPT !.op = "delete", !.key = k, !.ok = ex, !.err = err]

\* existed as logical presence: an expired entry counts as absent.
Existed_Live(k) == k \in DOMAIN data /\ ~isExpired(k)

\* Delete's `_, existed := m.data[key]`
Existed(k) == k \in DOMAIN data

\* Delete whose m.delete(key) forgets delete(m.data, key).
DeleteLock_KeepData(w, k) ==
    /\ pc[w] = "idle"
    /\ IF k = EmptyKey
       THEN /\ last' = Reply(w, DeleteReturned(k, FALSE, ErrEmptyKey))
            /\ UNCHANGED <<store, mu, pc, locals>>
       ELSE /\ CanLock
            /\ writer' = {w}
            /\ existed' = [existed EXCEPT ![w] = Existed(k)]
            /\ key' = [key EXCEPT ![w] = k]
            /\ pc' = [pc EXCEPT ![w] = "del_ttl"]
            /\ last' = NoCall
            /\ UNCHANGED <<store, readers, val, ttlArg, limit, todo, result,
                           readAt>>
    /\ UNCHANGED <<now, procs, hist, ticked, raced>>

\* Delete: the empty-key check; else m.mu.Lock(), existed, and the first
\* statement of m.delete(key).
DeleteLock(w, k) ==
    /\ pc[w] = "idle"
    /\ IF k = EmptyKey
       THEN /\ last' = Reply(w, DeleteReturned(k, FALSE, ErrEmptyKey))
            /\ UNCHANGED <<store, mu, pc, locals>>
       ELSE /\ CanLock
            /\ writer' = {w}
            /\ existed' = [existed EXCEPT ![w] = Existed(k)]
            /\ data' = Remove(data, k)
            /\ key' = [key EXCEPT ![w] = k]
            /\ pc' = [pc EXCEPT ![w] = "del_ttl"]
            /\ last' = NoCall
            /\ UNCHANGED <<ttl, readers, val, ttlArg, limit, todo, result,
                           readAt>>
    /\ UNCHANGED <<now, procs, hist, ticked, raced>>

\* Delete whose m.delete(key) forgets delete(m.ttl, key).
DeleteFinish_KeepTTL(w) ==
    /\ pc[w] = "del_ttl"
    /\ hist' = [hist EXCEPT ![key[w]] = LogDelete(@)]
    /\ writer' = {}
    /\ last' = Reply(w, DeleteReturned(key[w], existed[w], NoErr))
    /\ raced' = Wrote(w, key[w])
    /\ Idle(w)
    /\ UNCHANGED <<store, readers, now, procs, ticked>>

\* Delete: the second statement of m.delete(key), return existed, nil and
\* the deferred Unlock.
DeleteFinish(w) ==
    /\ pc[w] = "del_ttl"
    /\ ttl' = Remove(ttl, key[w])
    /\ hist' = [hist EXCEPT ![key[w]] = LogDelete(@)]
    /\ writer' = {}
    /\ last' = Reply(w, DeleteReturned(key[w], existed[w], NoErr))
    /\ raced' = Wrote(w, key[w])
    /\ Idle(w)
    /\ UNCHANGED <<data, readers, now, procs, ticked>>

\* -------------------------------------------------------------------- List

ListReturned(lim, pairs, quiet) ==
    [NoCall EXCEPT !.op = "list", !.limit = lim, !.pairs = pairs,
                   !.quiet = quiet]

\* The loop exit off by one: `>` for `>=`.
LimitReached_OffByOne(w) == Cardinality(DOMAIN result[w]) > limit[w]

\* List's loop exit: `if len(result) >= limit { break }`
LimitReached(w) == Cardinality(DOMAIN result[w]) >= limit[w]

\* List: m.mu.RLock(), result := make(...), and the start of the range.
ListRLock(w, lim) ==
    /\ pc[w] = "idle"
    /\ CanRLock
    /\ readers' = readers \cup {w}
    /\ limit' = [limit EXCEPT ![w] = lim]
    /\ result' = [result EXCEPT ![w] = EmptyMap]
    /\ todo' = [todo EXCEPT ![w] = DOMAIN data]
    /\ ticked' = [ticked EXCEPT ![w] = FALSE]
    /\ pc' = [pc EXCEPT ![w] = "list_iter"]
    /\ last' = NoCall
    /\ UNCHANGED <<store, writer, now, procs, key, val, ttlArg, existed, hist,
                   readAt, raced>>

\* List that evicts the expired keys it meets.
ListIter_Evicts(w) ==
    /\ pc[w] = "list_iter"
    /\ todo[w] /= {}
    /\ ~LimitReached(w)
    /\ \E k \in todo[w] :
          /\ todo' = [todo EXCEPT ![w] = @ \ {k}]
          /\ result' = [result EXCEPT
                          ![w] = IF isExpired(k) THEN @ ELSE Put(@, k, data[k])]
          /\ data' = IF isExpired(k) THEN Remove(data, k) ELSE data
          /\ ttl' = IF isExpired(k) THEN Remove(ttl, k) ELSE ttl
    /\ last' = NoCall
    /\ UNCHANGED <<mu, now, procs, pc, key, val, ttlArg, existed,
                   limit, hist, ticked, readAt, req, raced>>

\* List: one iteration of `for k, v := range m.data`, in any order: skip
\* the key when it is expired, else result[k] = v.
ListIter(w) ==
    /\ pc[w] = "list_iter"
    /\ todo[w] /= {}
    /\ ~LimitReached(w)
    /\ \E k \in todo[w] :
          /\ todo' = [todo EXCEPT ![w] = @ \ {k}]
          /\ result' = [result EXCEPT
                          ![w] = IF isExpired(k) THEN @ ELSE Put(@, k, data[k])]
    /\ last' = NoCall
    /\ UNCHANGED <<store, mu, now, procs, pc, key, val, ttlArg, existed,
                   limit, hist, ticked, readAt, req, raced>>

\* List: the range is over or the limit is reached: return result, nil and
\* the deferred RUnlock.
ListReturn(w) ==
    /\ pc[w] = "list_iter"
    /\ todo[w] = {} \/ LimitReached(w)
    /\ readers' = readers \ {w}
    /\ last' = Reply(w, ListReturned(limit[w], result[w], ~ticked[w]))
    /\ raced' = Returned(w)
    /\ ticked' = [ticked EXCEPT ![w] = FALSE]
    /\ Idle(w)
    /\ UNCHANGED <<store, writer, now, procs, hist>>

\* ------------------------------------------------------------------- clock

\* Every worker in a List scan has seen the clock move.
ClockMoved == [w \in Workers |-> ticked[w] \/ pc[w] = "list_iter"]

\* Time passes by one second: the unit in which the store reads the clock.
TickSecond ==
    /\ now + TicksPerSec <= MaxTick
    /\ now' = now + TicksPerSec
    /\ ticked' = ClockMoved
    /\ last' = NoCall
    /\ UNCHANGED <<store, mu, procs, pc, locals, hist, req, raced>>

\* Time passes by one tick, a fraction of a second.
Tick ==
    /\ now < MaxTick
    /\ now' = now + 1
    /\ ticked' = ClockMoved
    /\ last' = NoCall
    /\ UNCHANGED <<store, mu, procs, pc, locals, hist, req, raced>>

\* A step of some call of the store.
StoreStep ==
    \/ \E w \in procs, k \in KeyArgs : GetRLock(w, k) /\ UNCHANGED req
    \/ \E w \in procs : GetRead(w)
    \/ \E w \in procs : GetRUnlock(w)
    \/ \E w \in procs : GetLock(w)
    \/ \E w \in procs : GetFinish(w)
    \/ \E w \in procs, k \in KeyArgs, v \in Values, n \in TTLArgs : SetLock(w, k, v, n) /\ UNCHANGED req
    \/ \E w \in procs : SetTTL(w)
    \/ \E w \in procs, k \in KeyArgs : DeleteLock(w, k) /\ UNCHANGED req
    \/ \E w \in procs : DeleteFinish(w)
    \/ \E w \in procs, lim \in Limits : ListRLock(w, lim) /\ UNCHANGED req
    \/ \E w \in procs : ListIter(w)
    \/ \E w \in procs : ListReturn(w)

\* The store called by one goroutine, time observed in whole seconds.
Next == StoreStep \/ TickSecond

Spec == Init /\ [][Next]_vars

\* The same, time observed in fractions of a second.
NextSubSec == StoreStep \/ Tick

SubSecSpec == Init /\ [][NextSubSec]_vars

\* --------------------------------------------------------- Request Handler

ErrNegativeLimit == "limit cannot be negative"

\* The optional fields of a SetRequest and of a ListRequest.
ReqTTLs == {Nil, <<0>>, <<MaxTTL>>}
ReqLimits == {Nil} \cup { <<n>> : n \in Limits }

\* An absent limit taken as a default larger than zero.
GetLimit_Default(l) == IF l = Nil THEN MaxLimit ELSE l[1]

\* req.GetLimit(): zero when the field is absent.
GetLimit(l) == IF l = Nil THEN 0 ELSE l[1]

\* The request worker w serves.
Serving(w, n, l) == [req EXCEPT ![w] = [rpc |-> TRUE, ttl |-> n, limit |-> l]]

\* return ..., status.Error(codes.InvalidArgument, msg): the response of a
\* request the handler rejects.
Rejected(w, op, k, n, l, msg) ==
    [NoCall EXCEPT !.op = op, !.key = k, !.by = w, !.via = "handler",
                   !.code = "InvalidArgument", !.err = msg, !.reqTTL = n,
                   !.reqLimit = l]

\* The handler returns without calling the store.
Reject(w, op, k, n, l, msg) ==
    /\ pc[w] = "idle"
    /\ last' = Rejected(w, op, k, n, l, msg)
    /\ UNCHANGED <<store, mu, now, procs, pc, locals, hist, ticked, req,
                   raced>>

\* Server.List without the limit check.
ServerList_NoLimitCheck(w, l) ==
    ListRLock(w, GetLimit(l)) /\ req' = Serving(w, Nil, l)

\* func (s *Server) Get
ServerGet(w, k) ==
    IF k = EmptyKey THEN Reject(w, "get", k, Nil, Nil, ErrEmptyKey)
    ELSE GetRLock(w, k) /\ req' = Serving(w, Nil, Nil)

\* func (s *Server) Set: s.storage.Set(req.GetKey(), req.GetValue()), the
\* request's ttl_seconds n is not among the arguments of the call.
ServerSet(w, k, v, n) ==
    IF k = EmptyKey THEN Reject(w, "set", k, n, Nil, ErrEmptyKey)
    ELSE SetLock(w, k, v, Nil) /\ req' = Serving(w, n, Nil)

\* func (s *Server) Delete
ServerDelete(w, k) ==
    IF k = EmptyKey THEN Reject(w, "delete", k, Nil, Nil, ErrEmptyKey)
    ELSE DeleteLock(w, k) /\ req' = Serving(w, Nil, Nil)

\* func (s *Server) List
ServerList(w, l) ==
    IF GetLimit(l) < 0 THEN Reject(w, "list", EmptyKey, Nil, l, ErrNegativeLimit)
    ELSE ListRLock(w, GetLimit(l)) /\ req' = Serving(w, Nil, l)

\* The handler receives a request.
ServerStep ==
    \/ \E w \in procs, k \in KeyArgs : ServerGet(w, k)
    \/ \E w \in procs, k \in KeyArgs, v \in Values, n \in ReqTTLs : ServerSet(w, k, v, n)
    \/ \E w \in procs, k \in KeyArgs : ServerDelete(w, k)
    \/ \E w \in procs, l \in ReqLimits : ServerList(w, l)

\* The steps of the store under the handler: the rest of the calls the
\* handler made and, the handler passing no ttlSeconds, a direct Set that
\* gives a key an expiration.
ServedStep ==
    \/ \E w \in procs, k \in Keys, v \in Values : SetLock(w, k, v, <<MaxTTL>>) /\ UNCHANGED req
    \/ \E w \in procs : GetRead(w)
    \/ \E w \in procs : GetRUnlock(w)
    \/ \E w \in procs : GetLock(w)
    \/ \E w \in procs : GetFinish(w)
    \/ \E w \in procs : SetTTL(w)
    \/ \E w \in procs : DeleteFinish(w)
    \/ \E w \in procs : ListIter(w)
    \/ \E w \in procs : ListReturn(w)

\* The store called by one goroutine through the Request Handler.
ServerNext == ServerStep \/ ServedStep \/ TickSecond

ServerSpec == Init /\ [][ServerNext]_vars

\* ---------------------------------------------------- concurrent goroutines

\* What the concurrent goroutines call the store with.
ConcTTLs == {Nil, <<MaxTTL>>}
ConcLimits == {MaxLimit}

ConcInit == InitStore /\ procs = Workers

ConcStep ==
    \/ \E w \in procs, k \in Keys : GetRLock(w, k) /\ UNCHANGED req
    \/ \E w \in procs : GetRead(w)
    \/ \E w \in procs : GetRUnlock(w)
    \/ \E w \in procs : GetLock(w)
    \/ \E w \in procs : GetFinish(w)
    \/ \E w \in procs, k \in Keys, v \in Values, n \in ConcTTLs : SetLock(w, k, v, n) /\ UNCHANGED req
    \/ \E w \in procs : SetTTL(w)
    \/ \E w \in procs, k \in Keys : DeleteLock(w, k) /\ UNCHANGED req
    \/ \E w \in procs : DeleteFinish(w)
    \/ \E w \in procs, lim \in ConcLimits : ListRLock(w, lim) /\ UNCHANGED req
    \/ \E w \in procs : ListIter(w)
    \/ \E w \in procs : ListReturn(w)

\* The store called by all the goroutines at once.
ConcNext == ConcStep \/ TickSecond

ConcSpec == ConcInit /\ [][ConcNext]_vars

\* A goroutine inside a call keeps running: each step after the entry of a
\* call is taken if it stays possible.
Runs(w) ==
    /\ WF_vars(GetRead(w))
    /\ WF_vars(GetRUnlock(w))
    /\ WF_vars(GetFinish(w))
    /\ WF_vars(SetTTL(w))
    /\ WF_vars(DeleteFinish(w))
    /\ WF_vars(ListIter(w))
    /\ WF_vars(ListReturn(w))

\* sync.RWMutex: a blocked Lock call excludes new readers until the writer
\* has had the lock, so a goroutine waiting for the exclusive lock gets it
\* if the lock is free again and again.
Acquires(w) == SF_vars(GetLock(w))

\* What the goroutines under the fair scheduler call the store with.
FairValues == {"a"}

FairStep ==
    \/ \E w \in procs, k \in Keys : GetRLock(w, k) /\ UNCHANGED req
    \/ \E w \in procs : GetRead(w)
    \/ \E w \in procs : GetRUnlock(w)
    \/ \E w \in procs : GetLock(w)
    \/ \E w \in procs : GetFinish(w)
    \/ \E w \in procs, k \in Keys, v \in FairValues, n \in ConcTTLs : SetLock(w, k, v, n) /\ UNCHANGED req
    \/ \E w \in procs : SetTTL(w)
    \/ \E w \in procs, k \in Keys : DeleteLock(w, k) /\ UNCHANGED req
    \/ \E w \in procs : DeleteFinish(w)
    \/ \E w \in procs, lim \in ConcLimits : ListRLock(w, lim) /\ UNCHANGED req
    \/ \E w \in procs : ListIter(w)
    \/ \E w \in procs : ListReturn(w)

FairNext == FairStep \/ TickSecond

\* The concurrent goroutines under a fair scheduler.
FairSpec ==
    /\ ConcInit /\ [][FairNext]_vars
    /\ \A w \in Workers : Runs(w) /\ Acquires(w)

\* ================================================================== claims

\* The log entry of the key the last call was about.
H == hist[last.key]

\* The second that the last Get read.
ReadSec == last.at \div TicksPerSec

\* A key that is logically present at the current clock value.
Live(k) == k \in DOMAIN data /\ (k \notin DOMAIN ttl \/ ttl[k] > Unix)

LiveKeys == {k \in DOMAIN data : Live(k)}

\* C1: when the last write on a key is a Set without TTL (ttlSeconds nil),
\* a Get of that key returns the value that Set wrote and found = true,
\* whatever was done to other keys and however late the Get comes.
C1_PersistentSetGet ==
    (last.op = "get" /\ H.kind = "set" /\ H.nil)
        => (last.ok /\ last.val = H.val)

\* A Get found the empty value that a Set without TTL wrote, after the
\* clock moved and while the other key had been written too.
C1_Witness ==
    /\ last.op = "get" /\ last.ok /\ last.val = ""
    /\ H.kind = "set" /\ H.nil /\ H.val = ""
    /\ ReadSec > 0
    /\ \E k \in Keys \ {last.key} : hist[k].kind /= "none"

\* C2: when the last write on a key is a Set with ttl = n > 0 that read the
\* clock value t, a Get that reads the clock value c returns (v, true) when
\* c < t + n and ("", false) when c >= t + n.
C2_InclusiveBoundary ==
    (last.op = "get" /\ H.kind = "set" /\ H.n > 0)
        => IF ReadSec < Deadline(H)
           THEN last.ok /\ last.val = H.val
           ELSE ~last.ok /\ last.val = ""

\* C3: with the clock in sub-second ticks, a Get issued less than n full
\* seconds after a Set with ttl = n > 0 returns (v, true).  Stated for the
\* TTLs whose deadline t + n is representable, so that what decides it is
\* the truncation of the clock to seconds alone.
C3_ElapsedSeconds ==
    (/\ last.op = "get" /\ H.kind = "set" /\ H.n > 0
     /\ Deadline(H) <= MaxInt
     /\ last.at - H.at < H.n * TicksPerSec)
        => (last.ok /\ last.val = H.val)

\* C4: when a Set without TTL directly overwrote a Set with ttl > 0, the key
\* is persistent: a Get returns the second Set's value and found = true at
\* every clock value, also at or past the first Set's deadline.
C4_TTLOverwrite ==
    (last.op = "get" /\ H.kind = "set" /\ H.nil /\ H.cancelled > 0)
        => (last.ok /\ last.val = H.val)

\* A Get at or past the cancelled deadline found the second Set's value.
C4_Witness ==
    /\ last.op = "get" /\ last.ok
    /\ H.kind = "set" /\ H.nil /\ H.cancelled > 0
    /\ ReadSec >= H.cancelled
    /\ last.val = H.val

\* C5: a Set whose ttlSeconds is zero or negative leaves the store in
\* exactly the state a Set of the same key and value with nil ttlSeconds
\* leaves: the value written, no expiration for the key, every other
\* entry untouched.
C5_NonPositiveTTL ==
    [][\A w \in Workers :
          (/\ pc[w] = "set_ttl" /\ pc'[w] = "idle"
           /\ ttlArg[w] /= Nil /\ ttlArg[w][1] <= 0)
              => /\ data' = Put(data, key[w], val[w])
                 /\ ttl' = SetExpiration(key[w], Nil)
                 /\ key[w] \notin DOMAIN ttl']_vars

\* A Set with a zero or negative TTL returned after removing an expiration
\* that an earlier Set had given the key.
C5_Witness ==
    /\ last.op = "set" /\ last.ok
    /\ last.ttl /= Nil /\ last.ttl[1] <= 0
    /\ H.cancelled > 0
    /\ last.key \notin DOMAIN ttl
    /\ data[last.key] = last.val

\* C6: a Set with the empty key returns the empty-key error, for every
\* value and every TTL argument, and changes neither map nor the lock.
C6_SetEmptyKey ==
    [][(last'.op = "set" /\ last'.key = EmptyKey)
          => (last'.err = ErrEmptyKey /\ ~last'.ok
              /\ store' = store /\ mu' = mu)]_vars

\* A Set with the empty key and a positive TTL was refused while the store
\* held an entry.
C6_Witness ==
    /\ last.op = "set" /\ last.key = EmptyKey /\ last.err = ErrEmptyKey
    /\ Positive(last.ttl) /\ last.val = "a"
    /\ DOMAIN data /= {}

\* C7: Delete of a non-empty key returns existed = true exactly when an
\* entry was physically resident before it (the last write on the key was a
\* Set and no Get evicted it since), expired or not, returns no error, and
\* leaves the key in neither map.
C7_DeletePhysical ==
    [][(last'.op = "delete" /\ last'.key /= EmptyKey)
          => /\ last'.ok <=> Resident(hist[last'.key])
             /\ last'.err = NoErr
             /\ last'.key \notin DOMAIN data'
             /\ last'.key \notin DOMAIN ttl']_vars

\* A Delete read existed = true for an entry that had already expired and
\* was still resident.
C7_Witness ==
    \E w \in Workers :
        /\ pc[w] = "del_ttl" /\ existed[w]
        /\ Resident(hist[key[w]])
        /\ isExpired(key[w])

\* C8: a Delete of a non-empty key whose last write was a Delete returns
\* (false, no error) and leaves both maps as they were.
C8_DeleteTwice ==
    [][/\ \A w \in Workers :
            (pc[w] = "idle" /\ pc'[w] = "del_ttl" /\ hist[key'[w]].kind = "del")
                => store' = store
       /\ (last'.op = "delete" /\ last'.key /= EmptyKey
           /\ hist[last'.key].kind = "del")
              => (~last'.ok /\ last'.err = NoErr /\ store' = store)]_vars

\* A second Delete in a row is in progress and read existed = false, while
\* the other key is resident.
C8_Witness ==
    \E w \in Workers :
        /\ pc[w] = "del_ttl" /\ ~existed[w]
        /\ hist[key[w]].kind = "del"
        /\ DOMAIN data /= {}

\* C9: every pair List puts in its result is a resident key with its stored
\* value whose expiration, if any, is strictly after the clock value List
\* reads for it, and List returns exactly the pairs it collected.
C9_ListExcludesExpired ==
    [][\A w \in Workers :
          /\ \A k \in DOMAIN result'[w] \ DOMAIN result[w] :
                Live(k) /\ result'[w][k] = data[k]
          /\ (pc[w] = "list_iter" /\ pc'[w] = "idle")
                => last'.pairs = result[w]]_vars

\* A List with room for every key returned the persistent key alone while
\* an expired entry was resident, at the very second of its expiration.
C9_Witness ==
    /\ last.op = "list" /\ last.limit >= Cardinality(DOMAIN data)
    /\ DOMAIN last.pairs /= {}
    /\ \E k \in DOMAIN data :
          /\ k \in DOMAIN ttl /\ ttl[k] = Unix
          /\ k \notin DOMAIN last.pairs

\* C10: for limit >= 0, a List during whose scan the clock stood still
\* returns exactly min(limit, number of logically present keys) pairs.
C10_ListLimit ==
    (last.op = "list" /\ last.limit >= 0 /\ last.quiet)
        => Cardinality(DOMAIN last.pairs)
             = Min(last.limit, Cardinality(LiveKeys))

\* A List with limit 1 returned one pair while two keys were logically
\* present.
C10_Witness ==
    /\ last.op = "list" /\ last.limit = 1 /\ last.quiet
    /\ Cardinality(DOMAIN last.pairs) = 1
    /\ Cardinality(LiveKeys) = 2

\* C11: a List of the store with a negative limit returns an error.
C11_ListNegativeLimit ==
    (last.op = "list" /\ last.via = "store" /\ last.limit < 0)
        => last.err /= NoErr

\* C12: through the Request Handler, when the last write on a key is a Set
\* request with ttl_seconds = n > 0, a Get request for the key at or after
\* n seconds past the Set returns found = false; when it is a Set request
\* with ttl_seconds absent, zero or negative, a Get request returns the
\* value with found = true at any time.
C12_HandlerTTL ==
    (last.op = "get" /\ last.via = "handler" /\ last.code = "OK"
       /\ H.kind = "set" /\ H.rpc)
        => /\ (H.asked > 0 /\ ReadSec >= H.asked) => ~last.ok
           /\ H.asked = 0 => (last.ok /\ last.val = H.val)

\* A request the handler must reject: an empty key, or a negative limit.
Malformed(c) ==
    \/ c.op \in {"get", "set", "delete"} /\ c.key = EmptyKey
    \/ c.op = "list" /\ GetLimit(c.reqLimit) < 0

\* C13: the response to a Get, Set or Delete request with an empty key and
\* to a List request with a negative limit is InvalidArgument, given in a
\* step that leaves the maps, the lock and every call position as they
\* were; and no call of the store made for a request has an empty key or a
\* negative limit.
C13_RejectAtBoundary ==
    [][/\ (last'.via = "handler" /\ Malformed(last'))
            => /\ last'.code = "InvalidArgument"
               /\ UNCHANGED <<store, mu, pc, req>>
       /\ \A w \in Workers :
             (req'[w].rpc /\ pc'[w] /= "idle")
                => /\ GetLimit(req'[w].limit) >= 0 /\ limit'[w] >= 0
                   /\ pc'[w] /= "list_iter" => key'[w] /= EmptyKey]_vars

\* The handler rejected a List request with a negative limit while the
\* store held an entry.
C13_Witness ==
    /\ last.via = "handler" /\ last.op = "list"
    /\ last.reqLimit /= Nil /\ last.reqLimit[1] < 0
    /\ last.code = "InvalidArgument"
    /\ DOMAIN data /= {}

\* Every key's last write is a Set without TTL.
AllPersistent == \A k \in Keys : hist[k].kind = "set" /\ hist[k].nil

\* C14: with the workers calling in any interleaving, once a Set without
\* TTL on a key has returned and no other write on the key has, a Get of
\* the key that no write overlaps returns the value that Set wrote, with
\* found = true; and once every key has been so set, a List with a limit
\* of at least the number of keys returns every key with the value of its
\* Set.
C14_NoLostUpdates ==
    /\ (last.op = "get" /\ ~last.raced /\ H.kind = "set" /\ H.nil)
          => (last.ok /\ last.val = H.val)
    /\ (last.op = "list" /\ last.limit >= Cardinality(Keys) /\ AllPersistent)
          => last.pairs = [k \in Keys |-> hist[k].val]

\* Two workers have set one key each, without TTL and to different values,
\* and a List returned both pairs.
C14_Witness ==
    /\ AllPersistent
    /\ hist["k1"].by = "w1" /\ hist["k2"].by = "w2"
    /\ hist["k1"].val /= hist["k2"].val
    /\ last.op = "list" /\ DOMAIN last.pairs = Keys

\* The empty string is a key of neither map.
EmptyKeyAbsent == EmptyKey \notin DOMAIN data /\ EmptyKey \notin DOMAIN ttl

\* C15, as stated: the empty string is a key of neither map, and every
\* call of Get, Set or Delete with the empty key returns an error without
\* having taken the lock or read a map.
C15_EmptyKeyAlwaysFails ==
    /\ EmptyKeyAbsent
    /\ \A w \in Workers : pc[w] \notin {"idle", "list_iter"} => key[w] /= EmptyKey
    /\ (last.op \in {"get", "set", "delete"} /\ last.key = EmptyKey)
          => last.err /= NoErr

\* C15, amended: the empty string is a key of neither map; Set and Delete
\* with the empty key return the error without taking the lock; Get with
\* the empty key takes the read lock, reads the maps and returns ("", false)
\* with no error, and never reaches its cleanup path.
C15_EmptyKeyNeverStored ==
    /\ EmptyKeyAbsent
    /\ \A w \in Workers :
          pc[w] \notin {"idle", "list_iter", "get_read"} => key[w] /= EmptyKey
    /\ (last.op \in {"set", "delete"} /\ last.key = EmptyKey)
          => last.err = ErrEmptyKey
    /\ (last.op = "get" /\ last.key = EmptyKey)
          => (~last.ok /\ last.val = "" /\ last.err = NoErr)

\* A Get with the empty key returned from a store that holds an entry.
C15_Witness ==
    /\ last.op = "get" /\ last.key = EmptyKey /\ ~last.ok
    /\ DOMAIN data /= {}

\* The entry of key j in the maps d and t: its value and its expiration.
Entry(d, t, j) ==
    <<IF j \in DOMAIN d THEN <<d[j]>> ELSE <<>>,
      IF j \in DOMAIN t THEN <<t[j]>> ELSE <<>>>>

\* C16: a step in which no call changes position (an iteration of List, the
\* clock) and a step that enters or leaves List change neither map; a step
\* of a Get, Set or Delete on key k leaves the entry of every other key as
\* it was; and a key leaves the value map only in a step of Get(k) that
\* finds k expired under the exclusive lock, or in a step of Delete(k).
C16_Frame ==
    [][/\ (\A w \in Workers : pc'[w] = pc[w]) => store' = store
       /\ \A w \in Workers :
             pc'[w] /= pc[w] =>
                LET k == IF pc[w] = "idle" THEN key'[w] ELSE key[w] IN
                /\ ("list_iter" \in {pc[w], pc'[w]}) => store' = store
                /\ \A j \in KeyArgs \ {k} :
                      Entry(data', ttl', j) = Entry(data, ttl, j)
                /\ \A j \in DOMAIN data \ DOMAIN data' :
                      \/ pc[w] = "get_lock" /\ key[w] = j /\ isExpired(j)
                      \/ pc'[w] = "del_ttl" /\ key'[w] = j]_vars

\* A List has returned without an expired entry, which is still resident in
\* both maps, with its value.
C16_Witness ==
    /\ last.op = "list"
    /\ \E k \in DOMAIN data \ DOMAIN last.pairs :
          isExpired(k) /\ data[k] = hist[k].val /\ Resident(hist[k])

\* C17: a Get that saw its key expired under the read lock, and during
\* which no other worker wrote that key, removes the key under the
\* exclusive lock and returns ("", false) leaving the key in neither map;
\* and a Delete of a key whose entry a Get has evicted returns
\* existed = false.
C17_LazyEviction ==
    [][/\ \A w \in Workers :
             (pc[w] \in {"get_del", "get_ret"} /\ pc'[w] = "idle" /\ ~raced[w])
                => /\ pc[w] = "get_del"
                   /\ last'.op = "get" /\ last'.key = key[w]
                   /\ last'.val = "" /\ ~last'.ok
                   /\ key[w] \notin DOMAIN data'
                   /\ key[w] \notin DOMAIN ttl'
       /\ (last'.op = "delete" /\ last'.err = NoErr /\ hist[last'.key].evicted)
             => ~last'.ok]_vars

\* A Delete is in progress on a key that a Get has evicted, and it found no
\* entry.
C17_Witness ==
    \E w \in Workers :
        /\ pc[w] = "del_ttl" /\ ~existed[w]
        /\ hist[key[w]].kind = "set" /\ hist[key[w]].evicted

\* The positions at which a worker writes the maps, and those at which it
\* reads them.
Writing == {"set_ttl", "del_ttl", "get_del", "get_ret"}
Reading == {"get_read", "get_expired", "list_iter"}

\* C18: a worker is inside Set, Delete or Get's cleanup exactly when it
\* holds the exclusive lock, and then it is the only holder and no worker
\* holds the read lock or is at a position that reads the maps; a worker is
\* at a position of Get or List that reads the maps exactly when it holds
\* the read lock.
C18_LockDiscipline ==
    /\ Cardinality(writer) <= 1
    /\ writer /= {} => readers = {}
    /\ \A w \in Workers :
          /\ pc[w] \in Writing <=> w \in writer
          /\ pc[w] \in Reading <=> w \in readers
    /\ \A w, u \in Workers :
          (w /= u /\ pc[w] \in Writing) => pc[u] \notin Writing \cup Reading

\* Two workers read at the same time, one in Get and one in List.
C18_Witness ==
    /\ readers = Workers
    /\ \E w, u \in Workers : pc[w] = "get_read" /\ pc[u] = "list_iter"

\* C19: a Get that saw its key expired under the read lock and, once it
\* holds the exclusive lock, finds the key logically present (a Set has
\* replaced the entry in between) deletes nothing: it leaves both maps as
\* they are until it returns; and a Get that reads a logically present key
\* returns the value of the last Set on it, with found = true.
C19_CleanupSparesLive ==
    [][\A w \in Workers :
          /\ (pc[w] = "get_lock" /\ pc'[w] /= "get_lock" /\ Live(key[w]))
                => (pc'[w] = "get_ret" /\ store' = store)
          /\ (pc[w] = "get_ret" /\ pc'[w] /= "get_ret")
                => (store' = store /\ hist' = hist)
          /\ (pc[w] = "get_read" /\ pc'[w] = "idle" /\ Live(key[w]))
                => /\ last'.ok /\ last'.val = hist[key[w]].val
                   /\ Resident(hist[key[w]])]_vars

\* A Get that saw its key expired holds the exclusive lock and has found
\* the key logically present, another worker having set it in between.
C19_Witness ==
    \E w \in Workers :
        /\ pc[w] = "get_ret" /\ raced[w]
        /\ Live(key[w])
        /\ hist[key[w]].kind = "set" /\ hist[key[w]].by /= w

\* Key k is in neither map d, t.
Absent(d, t, k) == k \notin DOMAIN d /\ k \notin DOMAIN t

\* C20: every Get that saw its key expired under the read lock returns
\* ("", false) with no error, whatever the other workers did to the key
\* before it got the exclusive lock, and changes the entry of no other key;
\* when another Get or a Delete has removed the key in between, its own
\* removal is skipped, the maps stay as they are and the key is absent when
\* it returns; a Get that removes the key itself, and a Delete, leave the
\* key absent when they return.
C20_IdempotentRemoval ==
    [][\A w \in Workers :
          /\ (pc[w] \in {"get_del", "get_ret"} /\ pc'[w] = "idle")
                => /\ last'.op = "get" /\ last'.key = key[w]
                   /\ last'.val = "" /\ ~last'.ok /\ last'.err = NoErr
          /\ (pc[w] \in {"get_lock", "get_del", "get_ret"} /\ pc'[w] /= pc[w])
                => \A j \in KeyArgs \ {key[w]} :
                      Entry(data', ttl', j) = Entry(data, ttl, j)
          /\ (pc[w] = "get_lock" /\ pc'[w] /= "get_lock"
                /\ Absent(data, ttl, key[w]))
                => (pc'[w] = "get_ret" /\ store' = store)
          /\ (pc[w] = "get_ret" /\ pc'[w] = "idle"
                /\ ~Resident(hist[key[w]]))
                => (store' = store /\ Absent(data', ttl', key[w]))
          /\ (pc[w] \in {"get_del", "del_ttl"} /\ pc'[w] = "idle")
                => (last'.err = NoErr /\ Absent(data', ttl', key[w]))]_vars

\* Two Gets saw the same key expired; one has evicted it and returned, the
\* other now holds the exclusive lock and finds the key gone, while the
\* other key is still in the store.
C20_Witness ==
    \E w \in Workers :
        /\ pc[w] = "get_ret" /\ raced[w]
        /\ Absent(data, ttl, key[w])
        /\ hist[key[w]].evicted
        /\ DOMAIN data /= {}

\* The entry of key k is that of the last write committed on k: present
\* exactly when that write is a Set not evicted since, with that Set's
\* value, and with an expiration exactly when that Set asked for one, the
\* one it computed.
Committed(k) ==
    /\ k \in DOMAIN data <=> Resident(hist[k])
    /\ k \in DOMAIN data => data[k] = hist[k].val
    /\ k \in DOMAIN ttl <=> (Resident(hist[k]) /\ hist[k].n > 0)
    /\ k \in DOMAIN ttl => ttl[k] = Wrap(Deadline(hist[k]))

\* C21: from the step after List takes the read lock to the step in which
\* it returns, both maps stay as they are and every key's entry is that of
\* the last committed write (no Set, Delete or cleanup is half done); every
\* pair List collects, and every pair it returns, is a pair of that one
\* state of the value map.
C21_ListSnapshot ==
    [][\A w \in Workers :
          pc[w] = "list_iter" =>
             /\ store' = store
             /\ \A k \in Keys : Committed(k)
             /\ \A k \in DOMAIN result'[w] :
                   k \in DOMAIN data /\ result'[w][k] = data[k]
             /\ pc'[w] = "idle"
                   => /\ last'.op = "list" /\ last'.pairs = result[w]
                      /\ \A k \in DOMAIN last'.pairs :
                            k \in DOMAIN data /\ last'.pairs[k] = data[k]]_vars

\* A List has collected a pair while another worker's Get, having seen a
\* resident key expired, waits for the exclusive lock to remove it.
C21_Witness ==
    \E w, u \in Workers :
        /\ pc[w] = "list_iter" /\ DOMAIN result[w] /= {}
        /\ pc[u] = "get_lock" /\ key[u] \in DOMAIN data
        /\ isExpired(key[u])

\* C22, as stated: in every reachable state the keys of the expiration map
\* are keys of the value map.
C22_TTLSubsetAlways == DOMAIN ttl \subseteq DOMAIN data

\* C22, amended: whenever no worker holds the exclusive lock the keys of
\* the expiration map are keys of the value map; a key with an expiration
\* and no value exists only while the holder of the exclusive lock is
\* between the two statements of m.delete for that key, in Delete or in
\* Get's cleanup.
C22_NoOrphanExpiration ==
    /\ writer = {} => DOMAIN ttl \subseteq DOMAIN data
    /\ \A k \in DOMAIN ttl \ DOMAIN data :
          \E w \in writer : pc[w] \in {"del_ttl", "get_del"} /\ key[w] = k

\* A Delete holds the exclusive lock between the two statements of
\* m.delete: its key has left the value map and still has an expiration.
C22_Witness ==
    \E w \in writer :
        /\ pc[w] = "del_ttl"
        /\ key[w] \in DOMAIN ttl /\ key[w] \notin DOMAIN data

Released(w) == pc[w] = "idle" /\ w \notin readers /\ w \notin writer

\* C24: in every reachable state some step of the store is possible, and
\* under a fair scheduler every worker inside a call eventually is outside
\* it with no lock held.
C24_Terminates ==
    /\ [](ENABLED FairStep)
    /\ \A w \in Workers : (pc[w] /= "idle") ~> Released(w)

\* Both workers have seen the same key expired under the read lock, have
\* released it and wait for the exclusive lock.
C24_Witness ==
    /\ \A w \in Workers : pc[w] = "get_lock" /\ key[w] = "k1"
    /\ isExpired("k1")

=============================================================================
